---- MODULE Spec2Model ----
(***************************************************************************)
(* Model of the collaborative-drawing server (src/server.js): the user     *)
(* registry `users`, the shared log `drawingHistory`, and the socket.io    *)
(* event handlers registered in io.on('connection').  Handlers run to      *)
(* completion one at a time; each action below is one whole handler.       *)
(***************************************************************************)
EXTENDS Integers, Sequences, FiniteSets, TLC

\* ---- bounds of the model ----
MaxConns == 3   \* connections ever accepted (socket ids 1..MaxConns, never reused)
MaxLog == 2     \* draw/erase are accepted while the log is shorter than this
MaxCoord == 1   \* payload coordinates range over 0..MaxCoord
MaxTime == 0    \* Date.now() ranges over 0..MaxTime
MaxJoin == 13   \* connections ever accepted in the registry-only specification
MaxLeaves == 1  \* disconnects allowed in the registry-only specification
MaxLogWide == 3 \* log length in the log-only specification

Coord == 0..MaxCoord
Timestamps == 0..MaxTime

\* payloads the clients send (server.js:48-52, 68-70, 82-83)
DrawData == {[x1 |-> c, y1 |-> c + 1, x2 |-> c + 2, y2 |-> c + 3, strokeWidth |-> c + 4] : c \in Coord}
EraseData == {[x |-> c, y |-> c + 1, radius |-> c + 2] : c \in Coord}
CursorData == {[x |-> c + 1, y |-> c + 2] : c \in Coord}

VARIABLES
  users,           \* the Map of server.js:16, as the sequence of its values in insertion order
  drawingHistory,  \* the array of server.js:19
  sockets,         \* socket ids the transport holds connected
  nextId,          \* next fresh socket id the transport hands out
  sent,            \* messages emitted by the handler that ran last, in emission order
  lastEvent,       \* the event handled last: [type, socket, data]
  threw,           \* TRUE once a handler has raised
  views            \* per connected client, the command sequence it has built from its messages

vars == <<users, drawingHistory, sockets, nextId, sent, lastEvent, threw, views>>

\* ---- Map operations on `users` ----
MapSize(m) == Len(m)

MapKeys(m) == {m[i].id : i \in 1..Len(m)}

MapHas(m, k) == \E i \in 1..Len(m) : m[i].id = k

MapGet(m, k) == m[CHOOSE i \in 1..Len(m) : m[i].id = k]

MapSet(m, k, v) ==
  IF MapHas(m, k)
    THEN [i \in 1..Len(m) |-> IF m[i].id = k THEN v ELSE m[i]]
    ELSE Append(m, v)

\* variant: the delete drops the oldest entry instead of the entry of its key
MapDelete_Head(m, k) == IF m = << >> THEN m ELSE Tail(m)

\* variant: the delete misses its key and removes nothing
MapDelete_Noop(m, k) == m

MapDelete(m, k) == SelectSeq(m, LAMBDA u : u.id # k)

\* ---- helper functions of server.js ----
colors ==
  << "#FF6B6B", "#4ECDC4", "#45B7D1", "#FFA07A",
     "#98D8C8", "#F7DC6F", "#BB8FCE", "#85C1E2",
     "#F06292", "#AB47BC", "#7E57C2", "#5C6BC0" >>

\* variant: the size is read after the new user has been inserted
generateColor_AfterInsert(m) == colors[((MapSize(m) + 1) % Len(colors)) + 1]

generateColor(m) == colors[(MapSize(m) % Len(colors)) + 1]

\* variant: the label is numbered by a counter of all connections ever made
Username_Counter(m) == "User" \o ToString(nextId)

Username(m) == "User" \o ToString(MapSize(m) + 1)

\* a message handed to the transport: event name, recipients, arguments
Msg(ev, to, args) == [event |-> ev, to |-> to, args |-> args]

\* the three emit primitives of socket.io
SocketEmit(s, ev, args) == Msg(ev, {s}, args)

\* variant: socket.broadcast.emit written as io.emit
BroadcastEmit_ToAll(socks, s, ev, args) == Msg(ev, socks, args)

BroadcastEmit(socks, s, ev, args) == Msg(ev, socks \ {s}, args)

IoEmit(socks, ev, args) == Msg(ev, socks, args)

userList(m) == [i \in 1..Len(m) |-> [id |-> m[i].id, username |-> m[i].username, color |-> m[i].color]]

broadcastUserList(m, socks) == IoEmit(socks, "userListUpdate", <<userList(m)>>)

\* scan of findLastUserAction from 0-based index i downwards; -1 when none
RECURSIVE ScanBack(_, _, _)
ScanBack(h, userId, i) ==
  IF i < 0 THEN -1
  ELSE IF h[i + 1].userId = userId THEN i
  ELSE ScanBack(h, userId, i - 1)

\* variant: the scan does not compare the author and returns the last entry
findLastAnyAction(h, userId) == Len(h) - 1

\* variant: the scan runs from the head and returns the first match
findFirstUserAction(h, userId) ==
  IF \E i \in 1..Len(h) : h[i].userId = userId
    THEN (CHOOSE i \in 1..Len(h) :
            /\ h[i].userId = userId
            /\ \A j \in 1..(i - 1) : h[j].userId # userId) - 1
    ELSE -1

findLastUserAction(h, userId) == ScanBack(h, userId, Len(h) - 1)

\* variant: splice(start) without a count, which removes the whole tail
Splice1_Truncate(h, start) == SubSeq(h, 1, start)

\* Array.prototype.splice(start, 1) with a 0-based start
Splice1(h, start) == [j \in 1..(Len(h) - 1) |-> IF j <= start THEN h[j] ELSE h[j + 1]]

Event(t, s, d) == [type |-> t, socket |-> s, data |-> d]

\* ---- initial state: module loaded, no connection yet ----
Init ==
  /\ users = << >>
  /\ drawingHistory = << >>
  /\ sockets = {}
  /\ nextId = 1
  /\ sent = << >>
  /\ lastEvent = [type |-> "none", socket |-> 0, data |-> << >>]
  /\ threw = FALSE
  /\ views = << >>

\* variant: the joiner is sent only the commands of connected authors
Join_LiveAuthorsOnly ==
  /\ LET id == nextId
         socks == sockets \cup {id}
         users1 == MapSet(users, id,
                     [id |-> id, color |-> generateColor(users), username |-> Username(users),
                      cursorX |-> 0, cursorY |-> 0])
     IN /\ sockets' = socks
        /\ nextId' = nextId + 1
        /\ users' = users1
        /\ sent' = << SocketEmit(id, "loadDrawingHistory",
                        << SelectSeq(drawingHistory, LAMBDA c : c.userId \in sockets) >>),
                      broadcastUserList(users1, socks) >>
        /\ lastEvent' = Event("connection", id, << >>)
  /\ UNCHANGED <<drawingHistory, threw>>

\* variant: the user list is broadcast before the history is sent to the joiner
Join_ListFirst ==
  /\ LET id == nextId
         socks == sockets \cup {id}
         users1 == MapSet(users, id,
                     [id |-> id, color |-> generateColor(users), username |-> Username(users),
                      cursorX |-> 0, cursorY |-> 0])
     IN /\ sockets' = socks
        /\ nextId' = nextId + 1
        /\ users' = users1
        /\ sent' = << broadcastUserList(users1, socks),
                      SocketEmit(id, "loadDrawingHistory", <<drawingHistory>>) >>
        /\ lastEvent' = Event("connection", id, << >>)
  /\ UNCHANGED <<drawingHistory, threw>>

\* ---- io.on('connection'): the handler body for the fresh socket nextId ----
Join ==
  /\ LET id == nextId
         socks == sockets \cup {id}
         userColor == generateColor(users)
         username == Username(users)
         users1 == MapSet(users, id,
                     [id |-> id, color |-> userColor, username |-> username,
                      cursorX |-> 0, cursorY |-> 0])
     IN /\ sockets' = socks
        /\ nextId' = nextId + 1
        /\ users' = users1
        /\ sent' = << SocketEmit(id, "loadDrawingHistory", <<drawingHistory>>),
                      broadcastUserList(users1, socks) >>
        /\ lastEvent' = Event("connection", id, << >>)
  /\ UNCHANGED <<drawingHistory, threw>>

Connection == nextId <= MaxConns /\ Join

\* variant: the command is put at the head of the log (unshift for push)
Draw_Unshift(s, data) ==
  /\ s \in sockets
  /\ lastEvent' = Event("draw", s, <<data>>)
  /\ \E t \in Timestamps :
       LET command == [type |-> "draw", userId |-> s,
                       userColor |-> MapGet(users, s).color,
                       x1 |-> data.x1, y1 |-> data.y1, x2 |-> data.x2, y2 |-> data.y2,
                       strokeWidth |-> data.strokeWidth, timestamp |-> t]
       IN /\ drawingHistory' = <<command>> \o drawingHistory
          /\ sent' = << BroadcastEmit(sockets, s, "draw", <<command>>) >>
  /\ UNCHANGED <<users, sockets, nextId, threw>>

\* variant: the stroke color is generated anew instead of read from the registry
Draw_FreshColor(s, data) ==
  /\ s \in sockets
  /\ lastEvent' = Event("draw", s, <<data>>)
  /\ \E t \in Timestamps :
       LET command == [type |-> "draw", userId |-> s,
                       userColor |-> generateColor(users),
                       x1 |-> data.x1, y1 |-> data.y1, x2 |-> data.x2, y2 |-> data.y2,
                       strokeWidth |-> data.strokeWidth, timestamp |-> t]
       IN /\ drawingHistory' = Append(drawingHistory, command)
          /\ sent' = << BroadcastEmit(sockets, s, "draw", <<command>>) >>
  /\ UNCHANGED <<users, sockets, nextId, threw>>

\* ---- socket.on('draw') ----
Draw(s, data) ==
  /\ s \in sockets
  /\ lastEvent' = Event("draw", s, <<data>>)
  /\ IF MapHas(users, s)
       THEN \E t \in Timestamps :
              LET command == [type |-> "draw", userId |-> s,
                              userColor |-> MapGet(users, s).color,
                              x1 |-> data.x1, y1 |-> data.y1,
                              x2 |-> data.x2, y2 |-> data.y2,
                              strokeWidth |-> data.strokeWidth,
                              timestamp |-> t]
              IN /\ drawingHistory' = Append(drawingHistory, command)
                 /\ sent' = << BroadcastEmit(sockets, s, "draw", <<command>>) >>
                 /\ UNCHANGED threw
       ELSE /\ threw' = TRUE
            /\ sent' = << >>
            /\ UNCHANGED drawingHistory
  /\ UNCHANGED <<users, sockets, nextId>>

\* variant: the erase command is put at the head of the log
Erase_Unshift(s, data) ==
  /\ s \in sockets
  /\ \E t \in Timestamps :
       LET command == [type |-> "erase", userId |-> s,
                       x |-> data.x, y |-> data.y, radius |-> data.radius,
                       timestamp |-> t]
       IN /\ drawingHistory' = <<command>> \o drawingHistory
          /\ sent' = << BroadcastEmit(sockets, s, "erase", <<command>>) >>
  /\ lastEvent' = Event("erase", s, <<data>>)
  /\ UNCHANGED <<users, sockets, nextId, threw>>

\* ---- socket.on('erase') ----
Erase(s, data) ==
  /\ s \in sockets
  /\ \E t \in Timestamps :
       LET command == [type |-> "erase", userId |-> s,
                       x |-> data.x, y |-> data.y, radius |-> data.radius,
                       timestamp |-> t]
       IN /\ drawingHistory' = Append(drawingHistory, command)
          /\ sent' = << BroadcastEmit(sockets, s, "erase", <<command>>) >>
  /\ lastEvent' = Event("erase", s, <<data>>)
  /\ UNCHANGED <<users, sockets, nextId, threw>>

\* variant: the cursorUpdate is emitted outside the users.has test
CursorMoveHandler_EmitOutsideIf(s, data) ==
  /\ lastEvent' = Event("cursorMove", s, <<data>>)
  /\ users' = IF MapHas(users, s)
                THEN MapSet(users, s, [MapGet(users, s) EXCEPT !.cursorX = data.x, !.cursorY = data.y])
                ELSE users
  /\ sent' = << BroadcastEmit(sockets, s, "cursorUpdate",
                  << [userId |-> s, x |-> data.x, y |-> data.y] >>) >>
  /\ UNCHANGED <<drawingHistory, sockets, nextId, threw>>

\* ---- socket.on('cursorMove'): the handler body ----
CursorMoveHandler(s, data) ==
  /\ lastEvent' = Event("cursorMove", s, <<data>>)
  /\ IF MapHas(users, s)
       THEN LET user == MapGet(users, s)
                user1 == [user EXCEPT !.cursorX = data.x, !.cursorY = data.y]
            IN /\ users' = MapSet(users, s, user1)
               /\ sent' = << BroadcastEmit(sockets, s, "cursorUpdate",
                               << [userId |-> s, username |-> user1.username,
                                   x |-> data.x, y |-> data.y,
                                   color |-> user1.color] >>) >>
       ELSE /\ sent' = << >>
            /\ UNCHANGED users
  /\ UNCHANGED <<drawingHistory, sockets, nextId, threw>>

\* the transport dispatches events of connected sockets only
CursorMove(s, data) == s \in sockets /\ CursorMoveHandler(s, data)

\* variant: the undoAction goes out with socket.broadcast.emit, not io.emit
Undo_BroadcastOthers(s) ==
  /\ s \in sockets
  /\ lastEvent' = Event("undo", s, << >>)
  /\ LET lastUserActionIndex == findLastUserAction(drawingHistory, s)
     IN IF lastUserActionIndex # -1
          THEN LET h1 == Splice1(drawingHistory, lastUserActionIndex)
               IN /\ drawingHistory' = h1
                  /\ sent' = << BroadcastEmit(sockets, s, "undoAction",
                                  << [userId |-> s, previousHistory |-> h1] >>) >>
          ELSE /\ sent' = << >>
               /\ UNCHANGED drawingHistory
  /\ UNCHANGED <<users, sockets, nextId, threw>>

\* variant: the undoAction is emitted with the log as it was before the splice
Undo_StaleHistory(s) ==
  /\ s \in sockets
  /\ lastEvent' = Event("undo", s, << >>)
  /\ LET lastUserActionIndex == findLastUserAction(drawingHistory, s)
     IN IF lastUserActionIndex # -1
          THEN /\ drawingHistory' = Splice1(drawingHistory, lastUserActionIndex)
               /\ sent' = << IoEmit(sockets, "undoAction",
                               << [userId |-> s, previousHistory |-> drawingHistory] >>) >>
          ELSE /\ sent' = << >>
               /\ UNCHANGED drawingHistory
  /\ UNCHANGED <<users, sockets, nextId, threw>>

\* ---- socket.on('undo') ----
Undo(s) ==
  /\ s \in sockets
  /\ lastEvent' = Event("undo", s, << >>)
  /\ LET lastUserActionIndex == findLastUserAction(drawingHistory, s)
     IN IF lastUserActionIndex # -1
          THEN LET h1 == Splice1(drawingHistory, lastUserActionIndex)
               IN /\ drawingHistory' = h1
                  /\ sent' = << IoEmit(sockets, "undoAction",
                                  << [userId |-> s, previousHistory |-> h1] >>) >>
          ELSE /\ sent' = << >>
               /\ UNCHANGED drawingHistory
  /\ UNCHANGED <<users, sockets, nextId, threw>>

\* variant: redo tells every client that it is not supported
Redo_Broadcasts(s) ==
  /\ s \in sockets
  /\ lastEvent' = Event("redo", s, << >>)
  /\ sent' = << IoEmit(sockets, "redoAction", << >>) >>
  /\ UNCHANGED <<users, drawingHistory, sockets, nextId, threw>>

\* ---- socket.on('redo') ----
Redo(s) ==
  /\ s \in sockets
  /\ lastEvent' = Event("redo", s, << >>)
  /\ sent' = << >>
  /\ UNCHANGED <<users, drawingHistory, sockets, nextId, threw>>

\* variant: a clear drops only the commands of the connection that asked for it
ClearCanvas_OwnOnly(s) ==
  /\ s \in sockets
  /\ lastEvent' = Event("clearCanvas", s, << >>)
  /\ drawingHistory' = SelectSeq(drawingHistory, LAMBDA c : c.userId # s)
  /\ sent' = << IoEmit(sockets, "canvasCleared", << >>) >>
  /\ UNCHANGED <<users, sockets, nextId, threw>>

\* ---- socket.on('clearCanvas') ----
ClearCanvas(s) ==
  /\ s \in sockets
  /\ lastEvent' = Event("clearCanvas", s, << >>)
  /\ drawingHistory' = << >>
  /\ sent' = << IoEmit(sockets, "canvasCleared", << >>) >>
  /\ UNCHANGED <<users, sockets, nextId, threw>>

\* variant: the user list is built before the user is deleted
Disconnect_ListBeforeDelete(s) ==
  /\ s \in sockets
  /\ LET socks == sockets \ {s}
     IN /\ sockets' = socks
        /\ users' = MapDelete(users, s)
        /\ sent' = << IoEmit(socks, "cursorRemoved", << [userId |-> s] >>),
                      broadcastUserList(users, socks) >>
  /\ lastEvent' = Event("disconnect", s, << >>)
  /\ UNCHANGED <<drawingHistory, nextId, threw>>

\* ---- socket.on('disconnect') ----
Disconnect(s) ==
  /\ s \in sockets
  /\ LET socks == sockets \ {s}
         users1 == MapDelete(users, s)
     IN /\ sockets' = socks
        /\ users' = users1
        /\ sent' = << IoEmit(socks, "cursorRemoved", << [userId |-> s] >>),
                      broadcastUserList(users1, socks) >>
  /\ lastEvent' = Event("disconnect", s, << >>)
  /\ UNCHANGED <<drawingHistory, nextId, threw>>

\* ---- the clients: what each connection makes of the messages it is sent ----
Receive(view, m) ==
  CASE m.event = "loadDrawingHistory" -> m.args[1]
    [] m.event \in {"draw", "erase"} -> Append(view, m.args[1])
    [] m.event = "undoAction" -> m.args[1].previousHistory
    [] m.event = "canvasCleared" -> << >>
    [] OTHER -> view

RECURSIVE ReceiveAll(_, _, _, _)
ReceiveAll(view, c, msgs, i) ==
  IF i > Len(msgs) THEN view
  ELSE ReceiveAll(IF c \in msgs[i].to THEN Receive(view, msgs[i]) ELSE view, c, msgs, i + 1)

\* the sender of a draw/erase has already applied its own command locally
LocalEcho(view, c, ev, msgs) ==
  IF ev.socket = c /\ ev.type \in {"draw", "erase"} /\ msgs # << >>
    THEN Append(view, msgs[1].args[1])
    ELSE view

\* the messages of a handler are delivered before the next event is handled
ViewStep ==
  views' = [c \in sockets' |->
              ReceiveAll(LocalEcho(IF c \in DOMAIN views THEN views[c] ELSE << >>,
                                   c, lastEvent', sent'),
                         c, sent', 1)]

Next ==
  \/ Connection /\ ViewStep
  \/ \E s \in sockets, data \in DrawData :
       Len(drawingHistory) < MaxLog /\ Draw(s, data) /\ ViewStep
  \/ \E s \in sockets, data \in EraseData :
       Len(drawingHistory) < MaxLog /\ Erase(s, data) /\ ViewStep
  \/ \E s \in sockets, data \in CursorData : CursorMove(s, data) /\ ViewStep
  \/ \E s \in sockets : Undo(s) /\ ViewStep
  \/ \E s \in sockets : Redo(s) /\ ViewStep
  \/ \E s \in sockets : ClearCanvas(s) /\ ViewStep
  \/ \E s \in sockets : Disconnect(s) /\ ViewStep

Spec == Init /\ [][Next]_vars

\* Registry-only specification: connects and disconnects alone, with enough
\* connections for the registry to outgrow the 12-colour palette.
ConnectionWide == nextId <= MaxJoin /\ Join

DisconnectFew(s) == (nextId - 1) - Cardinality(sockets) < MaxLeaves /\ Disconnect(s)

NextJoin ==
  \/ ConnectionWide /\ ViewStep
  \/ \E s \in sockets : DisconnectFew(s) /\ ViewStep

SpecJoin == Init /\ [][NextJoin]_vars

\* Log-only specification: no cursor moves and no redo, and a longer log, so
\* that an undo leaves several survivors behind.
NextLog ==
  \/ Connection /\ ViewStep
  \/ \E s \in sockets, data \in DrawData :
       Len(drawingHistory) < MaxLogWide /\ Draw(s, data) /\ ViewStep
  \/ \E s \in sockets, data \in EraseData :
       Len(drawingHistory) < MaxLogWide /\ Erase(s, data) /\ ViewStep
  \/ \E s \in sockets : Undo(s) /\ ViewStep
  \/ \E s \in sockets : ClearCanvas(s) /\ ViewStep
  \/ \E s \in sockets : Disconnect(s) /\ ViewStep

SpecLog == Init /\ [][NextLog]_vars

\* Cursor specification: connects, strokes, cursor moves and disconnects, with
\* a transport that may still hand over the cursorMove of a socket it has
\* closed, so that the handler's users.has test is exercised both ways.
LateCursorMove(s, data) == s \in (1..(nextId - 1)) \ sockets /\ CursorMoveHandler(s, data)

NextLoose ==
  \/ Connection /\ ViewStep
  \/ \E s \in sockets, data \in DrawData :
       Len(drawingHistory) < MaxLog /\ Draw(s, data) /\ ViewStep
  \/ \E s \in sockets, data \in EraseData :
       Len(drawingHistory) < MaxLog /\ Erase(s, data) /\ ViewStep
  \/ \E s \in sockets, data \in CursorData : CursorMove(s, data) /\ ViewStep
  \/ \E s \in 1..MaxConns, data \in CursorData : LateCursorMove(s, data) /\ ViewStep
  \/ \E s \in sockets : Disconnect(s) /\ ViewStep

SpecLoose == Init /\ [][NextLoose]_vars

\* ======================= properties =======================

\* kind and sender of the event a step handles
Handles(t) == lastEvent'.type = t

Sender == lastEvent'.socket

\* h with the entry at 1-based position i taken out
RemoveAt(h, i) == SubSeq(h, 1, i - 1) \o SubSeq(h, i + 1, Len(h))

\* positions of the entries of h authored by c
IndicesOf(h, c) == {i \in 1..Len(h) : h[i].userId = c}

MaxOf(S) == CHOOSE x \in S : \A y \in S : y <= x

\* messages of `msgs` carrying event ev
MsgsOf(msgs, ev) == {i \in 1..Len(msgs) : msgs[i].event = ev}

\* C1: the loadDrawingHistory payload sent to a connection that has just
\* connected is the server log at that moment, and that log is built only by
\* appending one command per draw/erase, removing one entry per undo and
\* emptying on clearCanvas (connect, disconnect, cursorMove, redo keep it).
C1_LogStep ==
  CASE Handles("draw") \/ Handles("erase") ->
         /\ Len(drawingHistory') = Len(drawingHistory) + 1
         /\ SubSeq(drawingHistory', 1, Len(drawingHistory)) = drawingHistory
         /\ drawingHistory'[Len(drawingHistory')].type = lastEvent'.type
         /\ drawingHistory'[Len(drawingHistory')].userId = Sender
    [] Handles("undo") ->
         \/ drawingHistory' = drawingHistory
         \/ \E i \in 1..Len(drawingHistory) : drawingHistory' = RemoveAt(drawingHistory, i)
    [] Handles("clearCanvas") -> drawingHistory' = << >>
    [] OTHER -> drawingHistory' = drawingHistory

C1_JoinerPayload ==
  Handles("connection") =>
    /\ Cardinality(MsgsOf(sent', "loadDrawingHistory")) = 1
    /\ \A i \in MsgsOf(sent', "loadDrawingHistory") :
         /\ sent'[i].to = {Sender}
         /\ sent'[i].args = <<drawingHistory>>
         /\ sent'[i].args = <<drawingHistory'>>

C1_JoinerGetsLog == [][C1_LogStep /\ C1_JoinerPayload]_vars

\* a connection joins while the log holds commands of two different authors,
\* one of whom has disconnected
C1_Witness ==
  /\ lastEvent.type = "connection"
  /\ Len(drawingHistory) = 2
  /\ drawingHistory[1].userId # drawingHistory[2].userId
  /\ \E i \in 1..2 : drawingHistory[i].userId \notin sockets

\* C2: an undo from connection c removes exactly the highest-index entry whose
\* userId is c, whatever its type; with no entry of c the log is unchanged and
\* nothing is emitted.
C2_UndoStep ==
  Handles("undo") =>
    LET own == IndicesOf(drawingHistory, Sender)
    IN IF own = {}
         THEN drawingHistory' = drawingHistory /\ sent' = << >>
         ELSE /\ drawingHistory' = RemoveAt(drawingHistory, MaxOf(own))
              /\ Len(drawingHistory') = Len(drawingHistory) - 1

C2_UndoRemovesLastOwn == [][C2_UndoStep]_vars

\* an undo succeeded and left an earlier entry of the same author in the log
C2_Witness ==
  /\ lastEvent.type = "undo"
  /\ Len(sent) = 1
  /\ IndicesOf(drawingHistory, lastEvent.socket) # {}

\* C3: a draw/erase message goes to every registered connection but the
\* sender; the undoAction of a successful undo and the canvasCleared of a
\* clearCanvas go to every registered connection, the sender included.
C3_Step ==
  LET reg == MapKeys(users')
  IN /\ (Handles("draw") \/ Handles("erase")) =>
          /\ Len(sent') = 1
          /\ sent'[1].event = lastEvent'.type
          /\ sent'[1].to = reg \ {Sender}
          /\ Sender \notin sent'[1].to
     /\ (Handles("undo") /\ drawingHistory' # drawingHistory) =>
          /\ Len(sent') = 1
          /\ sent'[1].event = "undoAction"
          /\ sent'[1].to = reg
          /\ Sender \in sent'[1].to
     /\ Handles("clearCanvas") =>
          /\ Len(sent') = 1
          /\ sent'[1].event = "canvasCleared"
          /\ sent'[1].to = reg
          /\ Sender \in sent'[1].to

C3_Recipients == [][C3_Step]_vars

\* a draw reached two other connections
C3_Witness ==
  /\ lastEvent.type = "draw"
  /\ Len(sent) = 1
  /\ Cardinality(sent[1].to) = 2
  /\ lastEvent.socket \in sockets \ sent[1].to

\* C4: every undoAction carries the whole log as it is after the removal, and
\* the id of the connection that issued the undo.
C4_Step ==
  \A i \in MsgsOf(sent', "undoAction") :
    /\ Handles("undo")
    /\ sent'[i].args[1].previousHistory = drawingHistory'
    /\ sent'[i].args[1].userId = Sender
    /\ Len(sent'[i].args[1].previousHistory) = Len(drawingHistory) - 1

C4_UndoPayload == [][C4_Step]_vars

\* an undoAction carrying a non-empty remaining log
C4_Witness ==
  /\ lastEvent.type = "undo"
  /\ MsgsOf(sent, "undoAction") # {}
  /\ drawingHistory # << >>

\* C5: clearCanvas empties the log whoever authored its entries and keeps the
\* registry; a second clearCanvas leaves the same registry and empty log; the
\* draw or erase following a clear makes the log exactly that one command.
C5_Step ==
  /\ Handles("clearCanvas") =>
       /\ drawingHistory' = << >>
       /\ users' = users
       /\ sockets' = sockets
  /\ (lastEvent.type = "clearCanvas" /\ Handles("clearCanvas")) =>
       /\ drawingHistory = << >>
       /\ drawingHistory' = drawingHistory
       /\ users' = users
  /\ (lastEvent.type = "clearCanvas" /\ (Handles("draw") \/ Handles("erase"))) =>
       /\ Len(drawingHistory') = 1
       /\ drawingHistory'[1] = sent'[1].args[1]
       /\ drawingHistory'[1].type = lastEvent'.type
       /\ drawingHistory'[1].userId = Sender

C5_ClearEmpties == [][C5_Step]_vars

\* a clearCanvas by one connection while another is registered
C5_Witness ==
  /\ lastEvent.type = "clearCanvas"
  /\ drawingHistory = << >>
  /\ Cardinality(sockets) >= 2

\* C6: a connect grows the registry by one, a disconnect shrinks it by one,
\* and the registry holds exactly the connections that are connected.
C6_Step ==
  /\ Handles("connection") => MapSize(users') = MapSize(users) + 1
  /\ Handles("disconnect") => MapSize(users') = MapSize(users) - 1
  /\ MapKeys(users') = sockets'
  /\ MapSize(users') = Cardinality(sockets')

C6_RegistryTracksConnections == [][C6_Step]_vars

\* a disconnect that left other connections registered
C6_Witness ==
  /\ lastEvent.type = "disconnect"
  /\ MapSize(users) = 2
  /\ lastEvent.socket \notin MapKeys(users)

\* C7: with n the registry size before the join, the new record has
\* color = palette[n mod 12], username = "User" n+1 and cursor (0,0).
C7_Step ==
  Handles("connection") =>
    LET n == MapSize(users)
        rec == users'[Len(users')]
    IN /\ rec.id = Sender
       /\ rec.color = colors[(n % 12) + 1]
       /\ rec.username = "User" \o ToString(n + 1)
       /\ rec.cursorX = 0
       /\ rec.cursorY = 0

C7_JoinRecord == [][C7_Step]_vars

\* the thirteenth simultaneous user wraps around the palette
C7_Witness ==
  /\ lastEvent.type = "connection"
  /\ MapSize(users) = 13
  /\ users[13].color = "#FF6B6B"
  /\ users[13].username = "User13"

\* C8: while at most 12 users are registered, no two registered users have
\* the same color.
C8_UniqueColors ==
  MapSize(users) <= Len(colors) =>
    \A i, j \in 1..Len(users) : i # j => users[i].color # users[j].color

\* C9: a disconnect of A keeps the log, removes A (and only A) from the
\* registry, and sends every remaining registered connection cursorRemoved
\* for A and then a userListUpdate without A.
C9_Step ==
  Handles("disconnect") =>
    LET rest == MapKeys(users) \ {Sender}
    IN /\ drawingHistory' = drawingHistory
       /\ Sender \in MapKeys(users)
       /\ MapKeys(users') = rest
       /\ \A i \in 1..Len(users') : users'[i] = MapGet(users, users'[i].id)
       /\ Len(sent') = 2
       /\ sent'[1].event = "cursorRemoved"
       /\ sent'[1].to = rest
       /\ sent'[1].args = << [userId |-> Sender] >>
       /\ sent'[2].event = "userListUpdate"
       /\ sent'[2].to = rest
       /\ {sent'[2].args[1][i].id : i \in 1..Len(sent'[2].args[1])} = rest

C9_Disconnect == [][C9_Step]_vars

\* the author of a logged command has disconnected and others remain
C9_Witness ==
  /\ lastEvent.type = "disconnect"
  /\ IndicesOf(drawingHistory, lastEvent.socket) # {}
  /\ MapSize(users) >= 1

\* C10: on connect only the joiner gets loadDrawingHistory, before the
\* userListUpdate of the same connect, which goes to every registered
\* connection (joiner included) and lists the registered users as
\* {id, username, color} in insertion order.
C10_ConnectMessages ==
  /\ MsgsOf(sent, "loadDrawingHistory") # {} => lastEvent.type = "connection"
  /\ lastEvent.type = "connection" =>
       /\ Len(sent) = 2
       /\ sent[1].event = "loadDrawingHistory"
       /\ sent[1].to = {lastEvent.socket}
       /\ sent[2].event = "userListUpdate"
       /\ sent[2].to = MapKeys(users)
       /\ lastEvent.socket \in sent[2].to
       /\ LET list == sent[2].args[1]
          IN /\ Len(list) = MapSize(users)
             /\ \A i \in 1..Len(list) :
                  list[i] = [id |-> users[i].id, username |-> users[i].username,
                             color |-> users[i].color]
             /\ \A i, j \in 1..Len(list) : i < j => list[i].id < list[j].id
             /\ list[Len(list)].id = lastEvent.socket

\* a third connection joins two registered ones
C10_Witness ==
  /\ lastEvent.type = "connection"
  /\ MapSize(users) = 3
  /\ Len(sent) = 2

\* C11: a cursorMove of a registered connection overwrites only that
\* connection's cursorX/cursorY and sends a cursorUpdate with the sender's id,
\* username, color and the new x,y to every other registered connection; a
\* cursorMove of an unregistered connection changes nothing and emits nothing.
C11_Step ==
  Handles("cursorMove") =>
    LET d == lastEvent'.data[1]
    IN IF Sender \in MapKeys(users)
         THEN /\ Len(users') = Len(users)
              /\ \A i \in 1..Len(users) :
                   users'[i] = IF users[i].id = Sender
                                 THEN [id |-> users[i].id, color |-> users[i].color,
                                       username |-> users[i].username,
                                       cursorX |-> d.x, cursorY |-> d.y]
                                 ELSE users[i]
              /\ drawingHistory' = drawingHistory
              /\ Len(sent') = 1
              /\ sent'[1].event = "cursorUpdate"
              /\ sent'[1].to = MapKeys(users) \ {Sender}
              /\ sent'[1].args = << [userId |-> Sender,
                                     username |-> MapGet(users, Sender).username,
                                     x |-> d.x, y |-> d.y,
                                     color |-> MapGet(users, Sender).color] >>
         ELSE /\ users' = users
              /\ drawingHistory' = drawingHistory
              /\ sent' = << >>

C11_CursorMove == [][C11_Step]_vars

\* a cursorMove of a connection that has left, while others are registered
C11_Witness ==
  /\ lastEvent.type = "cursorMove"
  /\ lastEvent.socket \notin MapKeys(users)
  /\ MapSize(users) >= 1
  /\ sent = << >>

\* C12: a redo changes neither the registry nor the log and sends nothing.
C12_Step ==
  Handles("redo") =>
    /\ users' = users
    /\ drawingHistory' = drawingHistory
    /\ sockets' = sockets
    /\ sent' = << >>

C12_RedoIsInert == [][C12_Step]_vars

\* a redo with a non-empty log and two registered connections
C12_Witness ==
  /\ lastEvent.type = "redo"
  /\ drawingHistory # << >>
  /\ MapSize(users) >= 2

\* C13: whenever a draw, erase, cursorMove, undo, redo, clearCanvas or
\* disconnect of connection c is handled, c is in the registry, and no handler
\* raises.
C13_Step ==
  /\ lastEvent'.type \in {"draw", "erase", "cursorMove", "undo", "redo",
                          "clearCanvas", "disconnect"} =>
       Sender \in MapKeys(users)
  /\ threw' = FALSE

C14_Step ==
  (Handles("undo") /\ sent' # << >>) =>
    /\ Len(drawingHistory') = Len(drawingHistory) - 1
    /\ \E i \in 1..Len(drawingHistory) :
         /\ drawingHistory[i].userId = Sender
         /\ \A j \in 1..(i - 1) : drawingHistory'[j] = drawingHistory[j]
         /\ \A j \in i..Len(drawingHistory') : drawingHistory'[j] = drawingHistory[j + 1]

C14_UndoKeepsSurvivors == [][C14_Step]_vars

\* an undo that left two survivors of two other authors
C14_Witness ==
  /\ lastEvent.type = "undo"
  /\ sent # << >>
  /\ Len(drawingHistory) = 2
  /\ drawingHistory[1].userId # drawingHistory[2].userId
  /\ \A i \in 1..2 : drawingHistory[i].userId # lastEvent.socket

\* C15: a draw/erase appends exactly one command at the tail of the log, and
\* every recipient gets that command as the last of the commands it has
\* received, so that the order of reception is the order of the log.
C15_Step ==
  (Handles("draw") \/ Handles("erase")) =>
    /\ Len(sent') = 1
    /\ drawingHistory' = Append(drawingHistory, sent'[1].args[1])
    /\ \A c \in sent'[1].to :
         /\ c \in DOMAIN views
         /\ views'[c] = Append(views[c], sent'[1].args[1])
         /\ views'[c] = drawingHistory'

C15_AppendOrder == [][C15_Step]_vars

\* after a second stroke, another connection holds two commands of two authors
C15_Witness ==
  /\ lastEvent.type \in {"draw", "erase"}
  /\ Len(drawingHistory) >= 2
  /\ \E c \in sockets \ {lastEvent.socket} :
       /\ Len(views[c]) >= 2
       /\ views[c][1].userId # views[c][2].userId

\* C16: a registered user's color and username never change, and every draw
\* command in the log keeps userId = its sender and userColor = the color of
\* that sender, also after the sender has disconnected.
C16_Step ==
  /\ \A i \in 1..Len(users) :
       users[i].id \in MapKeys(users') =>
         /\ MapGet(users', users[i].id).color = users[i].color
         /\ MapGet(users', users[i].id).username = users[i].username
  /\ Handles("draw") =>
       /\ drawingHistory'[Len(drawingHistory')].userId = Sender
       /\ drawingHistory'[Len(drawingHistory')].userColor = MapGet(users, Sender).color
  /\ \A j \in 1..Len(drawingHistory') :
       \/ \E i \in 1..Len(drawingHistory) : drawingHistory'[j] = drawingHistory[i]
       \/ (Handles("draw") \/ Handles("erase")) /\ j = Len(drawingHistory')
  /\ \A j \in 1..Len(drawingHistory') :
       (drawingHistory'[j].type = "draw" /\ drawingHistory'[j].userId \in MapKeys(users')) =>
         drawingHistory'[j].userColor = MapGet(users', drawingHistory'[j].userId).color

C16_ColorIsStable == [][C16_Step]_vars

\* a draw command of a disconnected author is still in the log
C16_Witness ==
  \E j \in 1..Len(drawingHistory) :
    /\ drawingHistory[j].type = "draw"
    /\ drawingHistory[j].userId \notin sockets
    /\ drawingHistory[j].userColor = "#FF6B6B"
    /\ MapSize(users) >= 1

\* C17: the username is derived from the registry size at join time, so a
\* joiner takes the label "User" n+1 even when a registered user holds it, and
\* two registered users then share a username.
C17_Step ==
  Handles("connection") =>
    LET label == "User" \o ToString(MapSize(users) + 1)
    IN /\ users'[Len(users')].username = label
       /\ (\E i \in 1..Len(users) : users[i].username = label) =>
            \E i, j \in 1..Len(users') :
              i # j /\ users'[i].username = users'[j].username

C17_UsernameFromSize == [][C17_Step]_vars

\* two registered users with the same username
C17_Witness ==
  \E i, j \in 1..Len(users) : i # j /\ users[i].username = users[j].username

\* C18: an entry leaves the log only by an undo of its own author or by a
\* clearCanvas; an undo of c keeps the entries of all other authors, ids are
\* never reused, and the entries of disconnected authors stay until a clear.
OthersOf(h, c) == SelectSeq(h, LAMBDA e : e.userId # c)

Departed(h) == SelectSeq(h, LAMBDA e : e.userId \notin sockets)

C18_Step ==
  /\ Handles("undo") => OthersOf(drawingHistory', Sender) = OthersOf(drawingHistory, Sender)
  /\ ~(Handles("undo") \/ Handles("clearCanvas")) =>
       SubSeq(drawingHistory', 1, Len(drawingHistory)) = drawingHistory
  /\ ~Handles("clearCanvas") =>
       SelectSeq(drawingHistory', LAMBDA e : e.userId \notin sockets) = Departed(drawingHistory)
  /\ Handles("connection") =>
       /\ Sender \notin sockets
       /\ \A i \in 1..Len(drawingHistory) : drawingHistory[i].userId # Sender

C18_OnlyOwnUndoOrClear == [][C18_Step]_vars

\* an undo succeeded while the log holds an entry of a disconnected author
C18_Witness ==
  /\ lastEvent.type = "undo"
  /\ sent # << >>
  /\ Departed(drawingHistory) # << >>

\* C19: after every event, the sequence each registered connection has built
\* from its messages and its own strokes equals the server log.
C19_ViewsEqualLog ==
  /\ DOMAIN views = MapKeys(users)
  /\ \A c \in MapKeys(users) : views[c] = drawingHistory

\* an undo has been delivered to three connections, a command remaining
C19_Witness ==
  /\ lastEvent.type = "undo"
  /\ sent # << >>
  /\ MapSize(users) = 3
  /\ drawingHistory # << >>

\* C20: draw, erase, undo, clearCanvas and redo keep the registry; connect,
\* disconnect, cursorMove and redo keep the log; draw and erase keep every
\* earlier log entry at its index.
C20_Step ==
  /\ lastEvent'.type \in {"draw", "erase", "undo", "clearCanvas", "redo"} => users' = users
  /\ lastEvent'.type \in {"connection", "disconnect", "cursorMove", "redo"} =>
       drawingHistory' = drawingHistory
  /\ (Handles("draw") \/ Handles("erase")) =>
       /\ Len(drawingHistory') >= Len(drawingHistory)
       /\ \A i \in 1..Len(drawingHistory) : drawingHistory'[i] = drawingHistory[i]

C20_Frames == [][C20_Step]_vars

\* an erase appended to a log that held a command already
C20_Witness ==
  /\ lastEvent.type = "erase"
  /\ Len(drawingHistory) = 2
  /\ drawingHistory[2].type = "erase"
  /\ drawingHistory[1].type = "draw"

====
